---- MODULE Spec2Model ----
(***************************************************************************)
(* Model of server/model/model.py: the Flask worker that lazily loads a    *)
(* TFLite interpreter into process-wide globals and serves /predict and    *)
(* /health.  Each worker thread runs one request at a time; the steps of   *)
(* predict() and load_tflite_model() are separate actions wherever the     *)
(* code makes a call between two accesses to the shared globals, so every  *)
(* interleaving of the threads over the globals is explored.               *)
(***************************************************************************)
EXTENDS Integers, Sequences, FiniteSets

\* ---------------------------------------------------------------- bounds
MaxRequests == 2      \* /predict requests accepted in one run
NumImages == 2        \* distinct decodable pictures a client may upload
MaxScore == 2         \* scores range over 0..MaxScore in the response-builder runs

\* ------------------------------------------------------- program constants
MODEL_PATH == "./my_model.tflite"
class_names == <<"No DR", "Mild", "Moderate", "Severe", "Proliferative DR">>

\* The worker threads of one process that handle requests side by side.
Threads == {"w1", "w2"}

\* Python's None for the two detail lists; a loaded list is never empty.
None == <<>>
\* `interpreter is None` is modelled by the object id 0.
NoInterpreter == 0

\* What the artifact on disk declares: input shape (1, H, W, 3) and the
\* tensor indices of its single input and single output.
InputShape == <<1, 2, 2, 3>>
InputDetails == <<[index |-> 0, shape |-> InputShape]>>
OutputDetails(n) == <<[index |-> 1, shape |-> <<1, n>>]>>

\* Output vector lengths an exported artifact may have: the code reads the
\* length from the file and never compares it with class_names.
OutLens == {4, 5, 6}

NoTensor == [shape |-> <<>>, data |-> 0]
NewInterpreter == [allocated |-> FALSE, input |-> NoTensor, output |-> <<>>]

\* ---------------------------------------------------------------- requests
NoImage == [valid |-> FALSE, px |-> 0, mode |-> "", size |-> <<0, 0>>]
\* Sample pictures: odd ones are RGB, even ones grayscale.
Images ==
    {[valid |-> TRUE, px |-> p, mode |-> IF p % 2 = 1 THEN "RGB" ELSE "L", size |-> <<4, 4>>] :
        p \in 1..NumImages}

Requests ==
    {[has_file |-> FALSE, filename |-> "", payload |-> NoImage]}
    \cup {[has_file |-> TRUE, filename |-> "", payload |-> NoImage]}
    \cup {[has_file |-> TRUE, filename |-> "empty.bin", payload |-> NoImage]}
    \cup [has_file : {TRUE}, filename : {"eye.png"}, payload : Images]

NoRequest == [has_file |-> FALSE, filename |-> "", payload |-> NoImage]

NoLocals == [called_load |-> FALSE, current_interpreter |-> NoInterpreter,
             current_input_details |-> None, current_output_details |-> None,
             image |-> NoImage, processed_image |-> NoTensor, output_data |-> <<>>]

NoResponse == [status |-> 0, body |-> [error |-> ""]]

VARIABLES
    interpreter,      \* global: id of the interpreter object, 0 while None
    input_details,    \* global
    output_details,   \* global
    heap,             \* the interpreter objects constructed so far, by id
    model_out_len,    \* output vector length of the artifact at MODEL_PATH
    pc,               \* per thread: position in predict / load_tflite_model
    req,              \* per thread: the request being handled
    loc,              \* per thread: locals of predict
    steps,            \* per thread: lifecycle states the request has passed
    resp,             \* per thread: the response returned for the request
    served,           \* number of /predict requests accepted
    succ_loads,       \* number of load bodies that ran to completion
    ok_predict,       \* some /predict has answered 200
    health            \* last answer of GET /health

vars == <<interpreter, input_details, output_details, heap, model_out_len, pc,
          req, loc, steps, resp, served, succ_loads, ok_predict, health>>

globals == <<interpreter, input_details, output_details, heap>>

\* ------------------------------------------------------------ pure helpers

\* np.argmax over a non-empty vector: first index of the maximum (1-based here).
RECURSIVE ArgmaxFrom(_, _, _)
ArgmaxFrom(v, i, best) ==
    IF i > Len(v) THEN best
    ELSE ArgmaxFrom(v, i + 1, IF v[i] > v[best] THEN i ELSE best)

ArgmaxLast(v) ==
    CHOOSE i \in 1..Len(v) :
        /\ \A j \in 1..Len(v) : v[j] <= v[i]
        /\ \A j \in (i + 1)..Len(v) : v[j] < v[i]

Argmax(v) == ArgmaxFrom(v, 2, 1)

\* image.convert('RGB') when the mode differs.
ConvertRGB(image) == IF image.mode # "RGB" THEN [image EXCEPT !.mode = "RGB"] ELSE image

\* preprocess_image: resize to (width, height) of the model's input shape,
\* scale, add the batch dimension.  The pixel content is carried as px.
preprocess_image(image, input_shape) ==
    LET height == input_shape[2]
        width == input_shape[3]
        resized == [image EXCEPT !.size = <<width, height>>]
    IN [shape |-> <<1, resized.size[2], resized.size[1], 3>>, data |-> resized.px]

\* The external model: a deterministic function of the input tensor giving
\* one score per output position.
Infer(n, tensor) == [i \in 1..n |-> (tensor.data * i) % 7]

\* jsonify of the success body (lines 150-157).
SuccessBody(predictions, idx) ==
    [predicted_stage |-> class_names[idx],
     confidence |-> predictions[idx],
     all_probabilities |-> [i \in 1..Len(class_names) |-> predictions[i]]]

\* ------------------------------------------------------------- thread steps

Respond(t, status, body) ==
    /\ pc' = [pc EXCEPT ![t] = "done"]
    /\ resp' = [resp EXCEPT ![t] = [status |-> status, body |-> body]]

\* An exception that escapes the handler: the thread leaves predict with no response.
UnhandledException(t, msg) ==
    /\ pc' = [pc EXCEPT ![t] = "crashed"]
    /\ resp' = resp

\* except Exception as e: return jsonify({'error': str(e)}), 500
HandleException(t, msg) == Respond(t, 500, [error |-> msg])

Goto(t, label) ==
    /\ pc' = [pc EXCEPT ![t] = label]
    /\ resp' = resp

PassStep(t, s) == steps' = [steps EXCEPT ![t] = Append(@, s)]

Init ==
    /\ interpreter = NoInterpreter
    /\ input_details = None
    /\ output_details = None
    /\ heap = <<>>
    /\ model_out_len \in OutLens
    /\ pc = [t \in Threads |-> "idle"]
    /\ req = [t \in Threads |-> NoRequest]
    /\ loc = [t \in Threads |-> NoLocals]
    /\ steps = [t \in Threads |-> <<>>]
    /\ resp = [t \in Threads |-> NoResponse]
    /\ served = 0
    /\ succ_loads = 0
    /\ ok_predict = FALSE
    /\ health = NoResponse

\* The framework hands a POST /predict to a free worker thread.
Receive(t, r) ==
    /\ pc[t] \in {"idle", "done"}
    /\ served < MaxRequests
    /\ served' = served + 1
    /\ pc' = [pc EXCEPT ![t] = "validate"]
    /\ req' = [req EXCEPT ![t] = r]
    /\ loc' = [loc EXCEPT ![t] = NoLocals]
    /\ steps' = [steps EXCEPT ![t] = <<>>]
    /\ resp' = [resp EXCEPT ![t] = NoResponse]
    /\ UNCHANGED <<globals, model_out_len, succ_loads, ok_predict, health>>

HasFilePartAlways(r) == TRUE

\* 'file' in request.files
HasFilePart(r) == r.has_file

\* predict, lines 100-108
Validate(t) ==
    /\ pc[t] = "validate"
    /\ IF ~HasFilePart(req[t])
       THEN Respond(t, 400, [error |-> "No file part in request"]) /\ steps' = steps
       ELSE IF req[t].filename = ""
       THEN Respond(t, 400, [error |-> "No selected file"]) /\ steps' = steps
       ELSE Goto(t, "load_check") /\ PassStep(t, "Validated")
    /\ UNCHANGED <<globals, model_out_len, req, loc, served, succ_loads, ok_predict, health>>

\* load_tflite_model, line 26: the unguarded test of the global.
LoadCheck(t) ==
    /\ pc[t] = "load_check"
    /\ loc' = [loc EXCEPT ![t].called_load = TRUE]
    /\ IF interpreter = NoInterpreter
       THEN Goto(t, "load_exists")
       ELSE Goto(t, "load_return")
    /\ UNCHANGED <<globals, model_out_len, req, steps, served, succ_loads, ok_predict, health>>

\* lines 31-37: os.path.exists(MODEL_PATH), FileNotFoundError when absent;
\* the except clause of line 51 re-raises into predict's handler.
LoadExists(t, exists) ==
    /\ pc[t] = "load_exists"
    /\ IF exists
       THEN Goto(t, "load_construct")
       ELSE HandleException(t, "Model file not found at ./my_model.tflite")
    /\ UNCHANGED <<globals, model_out_len, req, loc, steps, served, succ_loads, ok_predict, health>>

\* line 40: interpreter = tf.lite.Interpreter(model_path=MODEL_PATH).
\* The global is bound only when the constructor returns.
LoadConstruct(t, ok) ==
    /\ pc[t] = "load_construct"
    /\ IF ok
       THEN /\ heap' = Append(heap, NewInterpreter)
            /\ interpreter' = Len(heap) + 1
            /\ Goto(t, "load_allocate")
       ELSE /\ UNCHANGED <<heap, interpreter>>
            /\ HandleException(t, "Could not open model file")
    /\ UNCHANGED <<input_details, output_details, model_out_len, req, loc, steps,
                   served, succ_loads, ok_predict, health>>

\* line 41: interpreter.allocate_tensors() on whatever the global names now.
LoadAllocate(t, ok) ==
    /\ pc[t] = "load_allocate"
    /\ IF ok
       THEN /\ heap' = [heap EXCEPT ![interpreter].allocated = TRUE]
            /\ Goto(t, "load_input_details")
       ELSE /\ heap' = heap
            /\ HandleException(t, "Failed to allocate tensors")
    /\ UNCHANGED <<interpreter, input_details, output_details, model_out_len, req, loc,
                   steps, served, succ_loads, ok_predict, health>>

\* line 44
LoadInputDetails(t) ==
    /\ pc[t] = "load_input_details"
    /\ input_details' = InputDetails
    /\ Goto(t, "load_output_details")
    /\ UNCHANGED <<interpreter, output_details, heap, model_out_len, req, loc, steps,
                   served, succ_loads, ok_predict, health>>

\* line 45; the try body has then run to completion.
LoadOutputDetails(t) ==
    /\ pc[t] = "load_output_details"
    /\ output_details' = OutputDetails(model_out_len)
    /\ succ_loads' = succ_loads + 1
    /\ Goto(t, "load_return")
    /\ UNCHANGED <<interpreter, input_details, heap, model_out_len, req, loc, steps,
                   served, ok_predict, health>>

\* line 56 and the unpacking of line 112: the three globals as they are now.
LoadReturn(t) ==
    /\ pc[t] = "load_return"
    /\ loc' = [loc EXCEPT ![t].current_interpreter = interpreter,
                          ![t].current_input_details = input_details,
                          ![t].current_output_details = output_details]
    /\ Goto(t, "decode")
    /\ UNCHANGED <<globals, model_out_len, req, steps, served, succ_loads, ok_predict, health>>

\* lines 118-124: Image.open raises on bytes that are no image.
Decode(t) ==
    /\ pc[t] = "decode"
    /\ IF ~req[t].payload.valid
       THEN /\ HandleException(t, "cannot identify image file")
            /\ UNCHANGED <<loc, steps>>
       ELSE /\ loc' = [loc EXCEPT ![t].image = ConvertRGB(req[t].payload)]
            /\ Goto(t, "preprocess")
            /\ PassStep(t, "Decoded")
    /\ UNCHANGED <<globals, model_out_len, req, served, succ_loads, ok_predict, health>>

\* lines 127-128: current_input_details[0]['shape'] raises TypeError on None.
Preprocess(t) ==
    /\ pc[t] = "preprocess"
    /\ IF loc[t].current_input_details = None
       THEN /\ HandleException(t, "'NoneType' object is not subscriptable")
            /\ UNCHANGED <<loc, steps>>
       ELSE /\ loc' = [loc EXCEPT ![t].processed_image =
                          preprocess_image(loc[t].image, loc[t].current_input_details[1].shape)]
            /\ Goto(t, "set_tensor")
            /\ PassStep(t, "Preprocessed")
    /\ UNCHANGED <<globals, model_out_len, req, served, succ_loads, ok_predict, health>>

\* line 132: writes the input buffer of the shared interpreter object.
SetTensor(t) ==
    /\ pc[t] = "set_tensor"
    /\ LET i == loc[t].current_interpreter IN
       IF ~heap[i].allocated
       THEN /\ HandleException(t, "Cannot set tensor: tensor is unallocated")
            /\ heap' = heap
       ELSE /\ heap' = [heap EXCEPT ![i].input = loc[t].processed_image]
            /\ Goto(t, "invoke")
    /\ UNCHANGED <<interpreter, input_details, output_details, model_out_len, req, loc,
                   steps, served, succ_loads, ok_predict, health>>

\* line 136: runs the model on whatever the input buffer holds now.
Invoke(t) ==
    /\ pc[t] = "invoke"
    /\ LET i == loc[t].current_interpreter IN
       IF ~heap[i].allocated
       THEN /\ HandleException(t, "Invoke called on model that is not ready")
            /\ heap' = heap
       ELSE /\ heap' = [heap EXCEPT ![i].output = Infer(model_out_len, heap[i].input)]
            /\ Goto(t, "get_tensor")
    /\ UNCHANGED <<interpreter, input_details, output_details, model_out_len, req, loc,
                   steps, served, succ_loads, ok_predict, health>>

\* line 139: copies the output buffer; current_output_details[0] raises on None.
GetTensor(t) ==
    /\ pc[t] = "get_tensor"
    /\ IF loc[t].current_output_details = None
       THEN /\ HandleException(t, "'NoneType' object is not subscriptable")
            /\ UNCHANGED <<loc, steps>>
       ELSE /\ loc' = [loc EXCEPT ![t].output_data = heap[loc[t].current_interpreter].output]
            /\ Goto(t, "process")
            /\ PassStep(t, "Inferred")
    /\ UNCHANGED <<globals, model_out_len, req, served, succ_loads, ok_predict, health>>

\* lines 143-157: argmax, label lookup, the per-class map over range(len(class_names)).
Process(t) ==
    /\ pc[t] = "process"
    /\ LET predictions == loc[t].output_data
           predicted_class_index == Argmax(predictions)
       IN IF predicted_class_index > Len(class_names)
          THEN /\ HandleException(t, "list index out of range")
               /\ ok_predict' = ok_predict
          ELSE IF Len(predictions) < Len(class_names)
          THEN /\ HandleException(t, "index is out of bounds for axis 0")
               /\ ok_predict' = ok_predict
          ELSE /\ Respond(t, 200, SuccessBody(predictions, predicted_class_index))
               /\ ok_predict' = TRUE
    /\ UNCHANGED <<globals, model_out_len, req, loc, steps, served, succ_loads, health>>

\* health, lines 62-75: the answer in the current state.
HealthResponse(model_exists) ==
    [status |-> 200,
     body |-> [status |-> "healthy",
               model_status |-> IF interpreter # NoInterpreter THEN "loaded" ELSE "not loaded",
               model_file_exists |-> model_exists,
               model_type |-> "TFLite"]]

Health(model_exists) ==
    /\ health' = HealthResponse(model_exists)
    /\ UNCHANGED <<globals, model_out_len, pc, req, loc, steps, resp, served,
                   succ_loads, ok_predict>>

Next ==
    \/ \E t \in Threads, r \in Requests : Receive(t, r)
    \/ \E t \in Threads : Validate(t)
    \/ \E t \in Threads : LoadCheck(t)
    \/ \E t \in Threads, exists \in BOOLEAN : LoadExists(t, exists)
    \/ \E t \in Threads, ok \in BOOLEAN : LoadConstruct(t, ok)
    \/ \E t \in Threads, ok \in BOOLEAN : LoadAllocate(t, ok)
    \/ \E t \in Threads : LoadInputDetails(t)
    \/ \E t \in Threads : LoadOutputDetails(t)
    \/ \E t \in Threads : LoadReturn(t)
    \/ \E t \in Threads : Decode(t)
    \/ \E t \in Threads : Preprocess(t)
    \/ \E t \in Threads : SetTensor(t)
    \/ \E t \in Threads : Invoke(t)
    \/ \E t \in Threads : GetTensor(t)
    \/ \E t \in Threads : Process(t)
    \/ \E model_exists \in BOOLEAN : Health(model_exists)

Spec == Init /\ [][Next]_vars

\* ------------------------------------------------------ response builder runs
\* The label lookup of predict on its own: one thread stands at line 143 with
\* an output vector of len(class_names) scores that some model produced.
ScoreVectors == [1..Len(class_names) -> 0..MaxScore]

InitResp ==
    \E v \in ScoreVectors :
        LET image == [valid |-> TRUE, px |-> 1, mode |-> "RGB", size |-> <<4, 4>>]
            tensor == preprocess_image(image, InputShape)
            busy == [NoLocals EXCEPT !.called_load = TRUE,
                                     !.current_interpreter = 1,
                                     !.current_input_details = InputDetails,
                                     !.current_output_details = OutputDetails(Len(class_names)),
                                     !.image = image,
                                     !.processed_image = tensor,
                                     !.output_data = v]
        IN /\ interpreter = 1
           /\ input_details = InputDetails
           /\ output_details = OutputDetails(Len(class_names))
           /\ heap = <<[allocated |-> TRUE, input |-> tensor, output |-> v]>>
           /\ model_out_len = Len(class_names)
           /\ pc = [t \in Threads |-> IF t = "w1" THEN "process" ELSE "idle"]
           /\ req = [t \in Threads |-> IF t = "w1"
                        THEN [has_file |-> TRUE, filename |-> "eye.png", payload |-> image]
                        ELSE NoRequest]
           /\ loc = [t \in Threads |-> IF t = "w1" THEN busy ELSE NoLocals]
           /\ steps = [t \in Threads |-> IF t = "w1"
                        THEN <<"Validated", "Decoded", "Preprocessed", "Inferred">>
                        ELSE <<>>]
           /\ resp = [t \in Threads |-> NoResponse]
           /\ served = 1
           /\ succ_loads = 1
           /\ ok_predict = FALSE
           /\ health = NoResponse

NextResp == \E t \in Threads : Process(t)

SpecResp == InitResp /\ [][NextResp]_vars

\* ------------------------------------------------------------------ claims

Lifecycle == <<"Validated", "Decoded", "Preprocessed", "Inferred">>

IsPrefix(a, b) == Len(a) <= Len(b) /\ \A i \in 1..Len(a) : a[i] = b[i]

\* Between passing the test of line 26 and leaving the try body of lines 27-49.
InLoadBody(t) ==
    pc[t] \in {"load_exists", "load_construct", "load_allocate",
               "load_input_details", "load_output_details"}

\* The next step of thread t inside predict.
Step(t) ==
    \/ Validate(t) \/ LoadCheck(t)
    \/ \E b \in BOOLEAN : LoadExists(t, b) \/ LoadConstruct(t, b) \/ LoadAllocate(t, b)
    \/ LoadInputDetails(t) \/ LoadOutputDetails(t) \/ LoadReturn(t)
    \/ Decode(t) \/ Preprocess(t) \/ SetTensor(t) \/ Invoke(t) \/ GetTensor(t) \/ Process(t)

\* The tensor and the scores that belong to the request thread t is handling.
OwnTensor(t) == preprocess_image(ConvertRGB(req[t].payload), InputShape)
OwnScores(t) == Infer(model_out_len, OwnTensor(t))

\* C1: at most one load runs to completion in a worker process, no thread
\* starts a load once one has succeeded, and two threads are never both
\* past the `interpreter is None` test.
C1_SingleLoad ==
    /\ succ_loads <= 1
    /\ Cardinality({t \in Threads : InLoadBody(t)}) <= 1
    /\ succ_loads >= 1 => \A t \in Threads : pc[t] \notin {"load_exists", "load_construct"}

\* C2: whenever load_tflite_model returns to a request, the interpreter it
\* returns has its tensors allocated and both detail lists are set.
C2_NoPartialHandle ==
    \A t \in Threads :
        pc[t] = "decode" =>
            /\ loc[t].current_interpreter # NoInterpreter
            /\ heap[loc[t].current_interpreter].allocated
            /\ loc[t].current_input_details # None
            /\ loc[t].current_output_details # None

\* C3: the scores a request reads back, and the prediction it answers with,
\* are the model's output for that request's own input tensor.
C3_OwnPrediction ==
    \A t \in Threads :
        /\ pc[t] = "process" => loc[t].output_data = OwnScores(t)
        /\ (pc[t] = "done" /\ resp[t].status = 200) =>
              /\ resp[t].body.all_probabilities =
                    [i \in 1..Len(class_names) |-> OwnScores(t)[i]]
              /\ resp[t].body.confidence = OwnScores(t)[Argmax(OwnScores(t))]

\* C4: when every load attempt so far has failed (none ran to completion and
\* none is in progress), the global handle is unset, so that the next call
\* loads afresh.
C4_FailedLoadLeavesUnset ==
    (succ_loads = 0 /\ \A t \in Threads : ~InLoadBody(t)) => interpreter = NoInterpreter

\* C5: /health answers 200; it says "not loaded" while every load so far has
\* failed or none was tried, and "loaded" once a /predict has answered 200.
C5_HealthReflects ==
    \A e \in BOOLEAN :
        LET answer == HealthResponse(e) IN
        /\ answer.status = 200
        /\ (succ_loads = 0 /\ \A t \in Threads : ~InLoadBody(t)) =>
              answer.body.model_status = "not loaded"
        /\ ok_predict => answer.body.model_status = "loaded"

\* C6: a request whose file is present and named but is no image is answered
\* with a 400-class status, never a 500.
C6_DecodeFailure400 ==
    \A t \in Threads :
        (/\ pc[t] = "done"
         /\ req[t].has_file
         /\ req[t].filename # ""
         /\ ~req[t].payload.valid) => resp[t].status \in 400..499

\* C7: no request reaches the label lookup with an output vector whose
\* length differs from that of class_names, and no load of such a model
\* completes.
C7_LabelTableMatches ==
    /\ \A t \in Threads : pc[t] = "process" => Len(loc[t].output_data) = Len(class_names)
    /\ succ_loads > 0 => model_out_len = Len(class_names)

\* C8: every request passes Validated, Decoded, Preprocessed, Inferred in that
\* order, has a response exactly when it has ended, ends with 200 only after
\* all four steps and otherwise with 400 or 500 and a JSON error body, no
\* exception leaves the handler, a request that has not ended can always take
\* its next step, and a thread that has answered accepts the next request.
C8_RequestLifecycle ==
    \A t \in Threads :
        /\ pc[t] # "crashed"
        /\ IsPrefix(steps[t], Lifecycle)
        /\ (resp[t] # NoResponse) <=> (pc[t] = "done")
        /\ pc[t] = "done" =>
              /\ resp[t].status \in {200, 400, 500}
              /\ resp[t].status = 200 =>
                    /\ steps[t] = Lifecycle
                    /\ resp[t].body.predicted_stage \in {class_names[i] : i \in 1..Len(class_names)}
              /\ resp[t].status # 200 =>
                    /\ resp[t].body = [error |-> resp[t].body.error]
                    /\ resp[t].body.error # ""
              /\ resp[t].status = 400 => steps[t] = <<>>
        /\ pc[t] \notin {"idle", "done"} => ENABLED Step(t)
        /\ (pc[t] = "done" /\ served < MaxRequests) => ENABLED (\E r \in Requests : Receive(t, r))

\* C8 witness: one request has ended in Error after its load failed while
\* another has ended in Responded.
C8_Witness ==
    \E t, u \in Threads :
        /\ pc[t] = "done" /\ resp[t].status = 500 /\ steps[t] = <<"Validated">>
        /\ pc[u] = "done" /\ resp[u].status = 200

\* C9 as stated: a request with no file field is answered 400 with the body
\* {"error": "No file part"} before any model load is attempted.
C9_NoFilePart ==
    \A t \in Threads :
        (pc[t] = "done" /\ ~req[t].has_file) =>
            /\ resp[t] = [status |-> 400, body |-> [error |-> "No file part"]]
            /\ ~loc[t].called_load

\* C9 amended: a request with no file field is answered 400 with the body
\* {"error": "No file part in request"} before any model load is attempted.
C9_NoFilePartInRequest ==
    \A t \in Threads :
        (pc[t] = "done" /\ ~req[t].has_file) =>
            /\ resp[t] = [status |-> 400, body |-> [error |-> "No file part in request"]]
            /\ ~loc[t].called_load
            /\ steps[t] = <<>>

\* C9 witness: a request without a file field has been answered while the
\* model is still unloaded.
C9_Witness ==
    \E t \in Threads :
        pc[t] = "done" /\ ~req[t].has_file /\ resp[t].status = 400 /\ interpreter = NoInterpreter

\* C10: for a vector of len(class_names) scores the answer names the label at
\* the lowest index holding the maximum score, with that score as confidence.
C10_ArgmaxFirst ==
    \A t \in Threads :
        (pc[t] = "done" /\ resp[t].status = 200 /\ Len(loc[t].output_data) = Len(class_names)) =>
            LET v == loc[t].output_data IN
            \E i \in 1..Len(v) :
                /\ \A j \in 1..Len(v) : v[j] <= v[i]
                /\ \A j \in 1..(i - 1) : v[j] < v[i]
                /\ resp[t].body.predicted_stage = class_names[i]
                /\ resp[t].body.confidence = v[i]
                /\ resp[t].body.all_probabilities = v

\* C10 witness: a prediction was answered for a vector whose maximum score
\* is held by two positions, the first of them not position 1.
C10_Witness ==
    \E t \in Threads :
        /\ pc[t] = "done" /\ resp[t].status = 200
        /\ LET v == loc[t].output_data IN
           \E i, j \in 2..Len(v) :
               /\ i < j /\ v[i] = v[j]
               /\ \A k \in 1..Len(v) : v[k] <= v[i]
               /\ \A k \in 1..(i - 1) : v[k] < v[i]
               /\ resp[t].body.predicted_stage = class_names[i]

====
